---- MODULE Spec2Model ----
(***************************************************************************)
(* Model of the plant-tracker per-image analysis code                      *)
(* (backend/app/analysis/*.py).                                            *)
(*                                                                         *)
(* Python floats are modelled as exact rationals <<num, den>> with den > 0 *)
(* (kept in lowest terms).  An optional value (`float | None`) is a record *)
(* [some |-> BOOLEAN, v |-> value]; None is [some |-> FALSE, ...].         *)
(***************************************************************************)
EXTENDS Integers, Sequences, FiniteSets, TLC

VARIABLES
    hs,     \* compute_health_score call: its arguments and returned score
    cm,     \* extract_color_metrics call: the masked pixels and the returned ColorMetrics
    cal,    \* calibrate_from_ruler call: image, roi, tick distance and the results
    settings, \* app.config.settings: the values a deployment may override
    pc,     \* analyze_image: the statement the call is at
    prev,   \* analyze_image: previous_area_mm2, previous_measured_hours_ago, previous_health
    seg,    \* analyze_image: local `seg` (SegmentationResult | None)
    ran,    \* analyze_image: the stages whose function has been called so far
    threw,  \* analyze_image: the stages whose call raised
    output, \* analyze_image: the AnalysisOutput being filled in
    qr,     \* detect_qr_code: the call in progress (frames, attempts made, result)
    db,     \* the database: the rows of plants, images and measurements
    files,  \* the image directory: the files a batch run collects, sorted by name
    clock,  \* datetime.now(), in hours
    runs,   \* the batch runs: the local variables of run_analysis and of main
    sgp      \* segment_plant call: the frame, the exclusion zones, the masks, the result

vars == <<hs, cm, cal, settings, pc, prev, seg, ran, threw, output,
          qr, db, files, clock, runs, sgp>>

-----------------------------------------------------------------------------
(* Exact rational arithmetic standing for Python float arithmetic.          *)

Abs(x) == IF x < 0 THEN -x ELSE x

RECURSIVE GCD(_, _)
GCD(a, b) == IF b = 0 THEN a ELSE GCD(b, a % b)

\* n/d in lowest terms with a positive denominator (d # 0)
Rat(n, d) ==
    LET g == GCD(Abs(n), Abs(d))
        s == IF d < 0 THEN -1 ELSE 1
    IN  <<(s * n) \div g, (s * d) \div g>>

RInt(k) == <<k, 1>>
RAdd(a, b) == Rat(a[1] * b[2] + b[1] * a[2], a[2] * b[2])
RSub(a, b) == Rat(a[1] * b[2] - b[1] * a[2], a[2] * b[2])
RMul(a, b) == Rat(a[1] * b[1], a[2] * b[2])
\* b # 0
RDiv(a, b) == Rat(a[1] * b[2], a[2] * b[1])
RLe(a, b) == a[1] * b[2] <= b[1] * a[2]
RLt(a, b) == a[1] * b[2] < b[1] * a[2]
RMin(a, b) == IF RLe(a, b) THEN a ELSE b
RMax(a, b) == IF RLe(a, b) THEN b ELSE a

\* round(x) to an integer, ties to even, as Python's round() does
RoundHalfEven(x) ==
    LET fl == (2 * x[1]) \div (2 * x[2])           \* floor(x), \div floors
        twice == 2 * x[1] - 2 * fl * x[2]          \* 2 * (x - floor) * den
    IN  IF twice < x[2] THEN fl
        ELSE IF twice > x[2] THEN fl + 1
        ELSE IF fl % 2 = 0 THEN fl ELSE fl + 1

\* round(x, 2)
Round2(x) == Rat(RoundHalfEven(RMul(x, RInt(100))), 100)

None == [some |-> FALSE, v |-> <<0, 1>>]
Some(x) == [some |-> TRUE, v |-> x]

-----------------------------------------------------------------------------
(* app/config.py: Settings (the defaults)                                   *)

health_weight_greenness == <<4, 10>>
health_weight_saturation == <<3, 10>>
\* a growth weight of the wrong sign
negative_growth_weight == <<-3, 10>>
health_weight_growth == <<3, 10>>
healthy_greenness_ref == <<45, 100>>
healthy_saturation_ref == <<55, 100>>
overgrowth_threshold_mm2 == <<40000, 1>>

-----------------------------------------------------------------------------
(* app/analysis/health_score.py                                             *)

_clamp(value, lo, hi) == RMax(lo, RMin(hi, value))

\* a growth component that looks at previous_health before growth_rate
growth_norm_prefers_previous(growth_rate, previous_health) ==
    IF previous_health.some
    THEN RDiv(previous_health.v, RInt(100))
    ELSE IF growth_rate.some
         THEN IF RLe(RInt(0), growth_rate.v)
              THEN RMin(RInt(1), RAdd(<<1, 2>>, RMul(growth_rate.v, <<1, 10>>)))
              ELSE RMax(RInt(0), RAdd(<<1, 2>>, RMul(growth_rate.v, <<1, 10>>)))
         ELSE <<1, 2>>

\* the growth component, health_score.py lines 52-65
growth_norm(growth_rate, previous_health) ==
    IF growth_rate.some
    THEN IF RLe(RInt(0), growth_rate.v)
         THEN RMin(RInt(1), RAdd(<<1, 2>>, RMul(growth_rate.v, <<1, 10>>)))
         ELSE RMax(RInt(0), RAdd(<<1, 2>>, RMul(growth_rate.v, <<1, 10>>)))
    ELSE IF previous_health.some
         THEN RDiv(previous_health.v, RInt(100))
         ELSE <<1, 2>>

\* raw * 100.0 with no final clamp: the score a missing clamp would return
unclamped_score(raw100) == raw100

\* score = _clamp(raw * 100.0, 0.0, 100.0), health_score.py line 69
final_score(raw100) == _clamp(raw100, RInt(0), RInt(100))

compute_health_score(greenness_index, mean_saturation, growth_rate, previous_health) ==
    LET w1 == health_weight_greenness
        w2 == health_weight_saturation
        w3 == health_weight_growth
        green_ref == healthy_greenness_ref
        greenness_norm ==
            _clamp(RDiv(RAdd(greenness_index, RInt(1)), RAdd(green_ref, RInt(1))),
                   RInt(0), RInt(1))
        sat_ref == healthy_saturation_ref
        sat_norm == IF RLt(RInt(0), sat_ref)
                    THEN _clamp(RDiv(mean_saturation, sat_ref), RInt(0), RInt(1))
                    ELSE RInt(0)
        g_norm == growth_norm(growth_rate, previous_health)
        total_weight == RAdd(RAdd(w1, w2), w3)
        raw == RDiv(RAdd(RAdd(RMul(w1, greenness_norm), RMul(w2, sat_norm)),
                         RMul(w3, g_norm)),
                    total_weight)
        score == final_score(RMul(raw, RInt(100)))
    IN  Round2(score)

-----------------------------------------------------------------------------
(* app/analysis/color_metrics.py                                            *)
(* An image is a sequence of BGR pixels <<b, g, r>> (row-major); a mask is  *)
(* a sequence of 0/255 of the same length.                                  *)

RECURSIVE SumSeq(_)
SumSeq(s) == IF s = <<>> THEN 0 ELSE Head(s) + SumSeq(Tail(s))

Max2(a, b) == IF a >= b THEN a ELSE b
Min2(a, b) == IF a <= b THEN a ELSE b

\* cv2.cvtColor(image, cv2.COLOR_BGR2HSV) on one 8-bit pixel: V = max,
\* S = 255 (V - min) / V, H in degrees / 2, each rounded to an integer
BGR2HSV(px) ==
    LET b == px[1]
        g == px[2]
        r == px[3]
        v == Max2(b, Max2(g, r))
        mn == Min2(b, Min2(g, r))
        d == v - mn
        s == IF v = 0 THEN 0 ELSE RoundHalfEven(Rat(255 * d, v))
        hdeg == IF d = 0 THEN RInt(0)
                ELSE IF v = r THEN Rat(60 * (g - b), d)
                ELSE IF v = g THEN RAdd(RInt(120), Rat(60 * (b - r), d))
                ELSE RAdd(RInt(240), Rat(60 * (r - g), d))
        hpos == IF RLt(hdeg, RInt(0)) THEN RAdd(hdeg, RInt(360)) ELSE hdeg
        h == RoundHalfEven(RDiv(hpos, RInt(2)))
    IN  <<h, s, v>>

\* the indices selected by `mask > 0`
Selected(mask) == {i \in 1..Len(mask) : mask[i] > 0}

RECURSIVE SumOver(_, _, _)
\* sum of channel k of image over the index set idx
SumOver(image, idx, k) ==
    IF idx = {} THEN 0
    ELSE LET i == CHOOSE j \in idx : TRUE
         IN  image[i][k] + SumOver(image, idx \ {i}, k)

RECURSIVE SumHSV(_, _, _)
SumHSV(image, idx, k) ==
    IF idx = {} THEN 0
    ELSE LET i == CHOOSE j \in idx : TRUE
         IN  BGR2HSV(image[i])[k] + SumHSV(image, idx \ {i}, k)

\* a greenness index normalised by the mean intensity (R + G + B) / 3 instead of
\* the channel sum
greenness_by_intensity(b_mean, g_mean, r_mean) ==
    LET channel_sum == RAdd(RAdd(r_mean, g_mean), b_mean)
    IN  IF RLt(RInt(0), channel_sum)
        THEN RDiv(RSub(RSub(RMul(RInt(2), g_mean), r_mean), b_mean),
                  RDiv(channel_sum, RInt(3)))
        ELSE RInt(0)

\* color_metrics.py lines 58-62
greenness_index(b_mean, g_mean, r_mean) ==
    LET channel_sum == RAdd(RAdd(r_mean, g_mean), b_mean)
    IN  IF RLt(RInt(0), channel_sum)
        THEN RDiv(RSub(RSub(RMul(RInt(2), g_mean), r_mean), b_mean), channel_sum)
        ELSE RInt(0)

extract_color_metrics(image, mask) ==
    LET idx == Selected(mask)
        n == Cardinality(idx)
    IN  IF n = 0
        THEN [mean_hue |-> RInt(0), mean_saturation |-> RInt(0),
              greenness_index |-> RInt(0)]
        ELSE LET mean_hue == Rat(SumHSV(image, idx, 1), n)
                 mean_saturation == RDiv(Rat(SumHSV(image, idx, 2), n), RInt(255))
                 b_mean == Rat(SumOver(image, idx, 1), n)
                 g_mean == Rat(SumOver(image, idx, 2), n)
                 r_mean == Rat(SumOver(image, idx, 3), n)
             IN  [mean_hue |-> mean_hue, mean_saturation |-> mean_saturation,
                  greenness_index |-> greenness_index(b_mean, g_mean, r_mean)]

-----------------------------------------------------------------------------
(* app/analysis/size_calibration.py                                         *)
(* A ruler image is [h, w, cols, rows]: an h x w frame, bright except for   *)
(* full-height dark tick lines at the columns `cols` and full-width dark    *)
(* lines at the rows `rows`.                                                *)

Bright == 240
MinPeakDistance == 5
PeakDistanceDiv == 150
MinTicks == 3
MinInliers == 2
\* settings.ruler_roi, config.py line 29
ruler_roi == <<280, 0, 1220, 160>>

\* image[y : y + h, x : x + w] for a roi with non-negative entries
Crop(image, roi) ==
    LET x == roi[1]
        y == roi[2]
        x2 == Min2(x + roi[3], image.w)
        y2 == Min2(y + roi[4], image.h)
        cw == Max2(0, x2 - Min2(x, image.w))
        ch == Max2(0, y2 - Min2(y, image.h))
    IN  [h |-> ch, w |-> cw,
         cols |-> {c - x : c \in {k \in image.cols : k >= x /\ k < x2}},
         rows |-> {r - y : r \in {k \in image.rows : k >= y /\ k < y2}}]

\* image.size
Size(image) == image.h * image.w * 3

\* np.mean(gray, axis=0): the mean brightness of each column
ColumnProfile(image) ==
    [c \in 1..image.w |->
        IF (c - 1) \in image.cols THEN RInt(0)
        ELSE Rat(Bright * (image.h - Cardinality(image.rows)), image.h)]

\* np.mean(gray, axis=1): the mean brightness of each row
RowProfile(image) ==
    [r \in 1..image.h |->
        IF (r - 1) \in image.rows THEN RInt(0)
        ELSE Rat(Bright * (image.w - Cardinality(image.cols)), image.w)]

RECURSIVE SetToSortedSeq(_)
SetToSortedSeq(S) ==
    IF S = {} THEN <<>>
    ELSE LET m == CHOOSE x \in S : \A y \in S : x <= y
         IN  <<m>> \o SetToSortedSeq(S \ {m})

RECURSIVE SelectByDistance(_, _)
\* scipy's distance rule on peaks of equal height: the last peak is kept and every
\* peak closer than `distance` to a kept one is dropped, from right to left
SelectByDistance(P, distance) ==
    IF P = {} THEN {}
    ELSE LET m == CHOOSE x \in P : \A y \in P : y <= x
         IN  {m} \cup SelectByDistance({q \in P : m - q >= distance}, distance)

\* find_peaks(inverted, distance=min_distance, prominence=prominence) on the smoothed,
\* inverted profile: the 0-based indices of the isolated dark entries, never the first
\* or the last sample, thinned to the minimum distance.  A flat profile has no peak.
FindPeaks(profile) ==
    LET n == Len(profile)
        min_distance == Max2(MinPeakDistance, n \div PeakDistanceDiv)
        dark == {i \in 1..n : \E j \in 1..n : RLt(profile[i], profile[j])}
        inner == {i - 1 : i \in {k \in dark : k > 1 /\ k < n}}
    IN  SetToSortedSeq(SelectByDistance(inner, min_distance))

\* np.diff(peaks)
Diff(peaks) == [i \in 1..(Len(peaks) - 1) |-> peaks[i + 1] - peaks[i]]

RECURSIVE SortInts(_)
SortInts(s) ==
    IF s = <<>> THEN <<>>
    ELSE LET i == CHOOSE k \in 1..Len(s) : \A j \in 1..Len(s) : s[k] <= s[j]
         IN  <<s[i]>> \o SortInts([j \in 1..(Len(s) - 1) |-> IF j < i THEN s[j] ELSE s[j + 1]])

\* np.median of a non-empty sequence of integers
Median(s) ==
    LET t == SortInts(s)
        n == Len(t)
    IN  IF n % 2 = 1 THEN RInt(t[(n + 1) \div 2])
        ELSE Rat(t[n \div 2] + t[n \div 2 + 1], 2)

\* an outlier band of 0.9 of the median
WideBand == <<9, 10>>

\* size_calibration.py line 158: the outlier band, 0.4 of the median
InlierBand == <<4, 10>>

\* spacings[inlier_mask]
Inliers(spacings, median_spacing) ==
    SelectSeq(spacings,
              LAMBDA sp : LET dev == RSub(RInt(sp), median_spacing)
                              adev == IF RLt(dev, RInt(0)) THEN RSub(RInt(0), dev) ELSE dev
                          IN  RLt(adev, RMul(InlierBand, median_spacing)))

\* refined_median * tick_distance_mm: the conversion the wrong way round
px_times_distance(refined_median, tick_distance_mm) ==
    RMul(refined_median, tick_distance_mm)

\* size_calibration.py line 169: px_per_mm = refined_median / tick_distance_mm
px_from_spacing(refined_median, tick_distance_mm) ==
    RDiv(refined_median, tick_distance_mm)

CalibrationResult(px_per_mm, ruler_detected, tick_count, median_tick_spacing_px) ==
    [px_per_mm |-> px_per_mm, ruler_detected |-> ruler_detected,
     tick_count |-> tick_count, median_tick_spacing_px |-> median_tick_spacing_px,
     raised |-> FALSE]

\* the call ended in ZeroDivisionError (refined_median / 0.0)
Raised == [px_per_mm |-> None, ruler_detected |-> FALSE, tick_count |-> 0,
           median_tick_spacing_px |-> RInt(0), raised |-> TRUE]

_find_tick_spacing(profile, tick_distance_mm) ==
    LET peaks == FindPeaks(profile)
    IN  IF Len(peaks) < MinTicks
        THEN CalibrationResult(None, FALSE, Len(peaks), RInt(0))
        ELSE LET spacings == Diff(peaks)
                 median_spacing == Median(spacings)
                 inl == Inliers(spacings, median_spacing)
             IN  IF Len(inl) < MinInliers
                 THEN CalibrationResult(None, TRUE, Len(peaks), median_spacing)
                 ELSE LET refined_median == Median(inl)
                      IN  IF tick_distance_mm = RInt(0) THEN Raised
                          ELSE CalibrationResult(
                                  Some(px_from_spacing(refined_median, tick_distance_mm)),
                                  TRUE, Len(peaks), refined_median)

\* the result both orientations seen but unusable would give if it were handed on
no_scale_passes_h(result_h, result_v) == result_h

\* size_calibration.py line 79: neither orientation yields a scale
no_scale_result(result_h, result_v) == CalibrationResult(None, FALSE, 0, RInt(0))

\* the crop taken unconditionally
always_cropped(image, cropped) == cropped

\* size_calibration.py lines 58-59: the crop replaces the image only when it is non-empty
crop_if_nonempty(image, cropped) == IF Size(cropped) > 0 THEN cropped ELSE image

\* a selection that takes the horizontal result whenever it has a scale
horizontal_first(result_h, result_v) ==
    IF result_h.px_per_mm.some THEN result_h
    ELSE IF result_v.px_per_mm.some THEN result_v
    ELSE no_scale_result(result_h, result_v)

\* size_calibration.py lines 72-79
select_orientation(result_h, result_v) ==
    IF result_h.px_per_mm.some /\ result_v.px_per_mm.some
    THEN (IF result_h.tick_count >= result_v.tick_count THEN result_h ELSE result_v)
    ELSE IF result_h.px_per_mm.some THEN result_h
    ELSE IF result_v.px_per_mm.some THEN result_v
    ELSE no_scale_result(result_h, result_v)

NoRoi == [some |-> FALSE, v |-> <<>>]

\* calibrate_from_ruler(image, tick_distance_mm, roi); `used` records which frame the
\* profiles were taken from ("none": the call returned before taking any)
calibrate_from_ruler(image, tick_distance_mm, roi, cfg) ==
    LET tick == IF tick_distance_mm.some /\ tick_distance_mm.v # RInt(0)
                THEN tick_distance_mm.v ELSE cfg.ruler_tick_distance_mm
        r == IF roi.some THEN roi.v ELSE ruler_roi
        img == IF Len(r) = 4 THEN crop_if_nonempty(image, Crop(image, r)) ELSE image
        used == IF Size(img) = 0 THEN "none"
                ELSE IF Len(r) = 4 /\ img = Crop(image, r) /\ img # image THEN "crop"
                ELSE "full"
        unset == CalibrationResult(None, FALSE, 0, RInt(0))
    IN  IF Size(img) = 0
        THEN [ret |-> CalibrationResult(None, FALSE, 0, RInt(0)),
              result_h |-> unset, result_v |-> unset, used |-> used]
        ELSE LET result_h == _find_tick_spacing(ColumnProfile(img), tick)
                 result_v == IF result_h.raised THEN unset
                             ELSE _find_tick_spacing(RowProfile(img), tick)
                 ret == IF result_h.raised \/ result_v.raised THEN Raised
                        ELSE select_orientation(result_h, result_v)
             IN  [ret |-> ret, result_h |-> result_h, result_v |-> result_v,
                  used |-> used]

-----------------------------------------------------------------------------
(* Bounds of the checked instances                                          *)

MaxGreen == 4     \* greenness_index ranges over -MaxGreen/2 .. MaxGreen/2
MaxSat == 5       \* mean_saturation ranges over -1/4 .. MaxSat/4
MaxPrevHealth == 3 \* previous_health ranges over -50 .. 50 * MaxPrevHealth
MaxPix == 2       \* pixels of the image handed to extract_color_metrics
ImgW == 27        \* width of the ruler image
ImgH == 21        \* height of the ruler image
TickStep == 6     \* tick lines lie on every TickStep-th column / row
PipePix == 3      \* pixels of the frame analyze_image segments

-----------------------------------------------------------------------------
(* Values every specification starts from                                   *)

HsIdle == [phase |-> "idle", greenness_index |-> RInt(0), mean_saturation |-> RInt(0),
           growth_rate |-> None, previous_health |-> None, score |-> RInt(0)]

CmIdle == [phase |-> "idle", image |-> <<>>, mask |-> <<>>,
           result |-> [mean_hue |-> RInt(0), mean_saturation |-> RInt(0),
                       greenness_index |-> RInt(0)]]

EmptyImage == [h |-> 0, w |-> 0, cols |-> {}, rows |-> {}]

CalIdle == [phase |-> "idle", image |-> EmptyImage, tick_distance_mm |-> None,
            roi |-> NoRoi,
            res |-> calibrate_from_ruler(EmptyImage, None, NoRoi,
                                         [ruler_tick_distance_mm |-> RInt(1)])]

\* config.py line 26: ruler_tick_distance_mm = 1.0
DefaultSettings == [ruler_tick_distance_mm |-> RInt(1)]

\* AnalysisOutput(filepath, filename) with every other field at its default,
\* pipeline.py lines 30-52 (filepath and filename are not modelled)
NoneStr == [some |-> FALSE, v |-> ""]
SomeStr(x) == [some |-> TRUE, v |-> x]

AnalysisOutput ==
    [qr_code |-> NoneStr, px_per_mm |-> None, ruler_detected |-> FALSE,
     area_px |-> 0, area_mm2 |-> None, segmentation_success |-> FALSE,
     mean_hue |-> RInt(0), mean_saturation |-> RInt(0), greenness_index |-> RInt(0),
     health_score |-> RInt(0), growth_rate |-> None, is_overgrown |-> FALSE,
     errors |-> <<>>]

NoSeg == [some |-> FALSE, mask |-> {}, area_px |-> 0, contour |-> FALSE,
          success |-> FALSE]

NoPrev == [previous_area_mm2 |-> None, previous_measured_hours_ago |-> None,
           previous_health |-> None]

PipelineIdle ==
    /\ pc = "idle"
    /\ prev = NoPrev
    /\ seg = NoSeg
    /\ ran = {}
    /\ threw = {}
    /\ output = AnalysisOutput

PipelineUnchanged == UNCHANGED <<pc, prev, seg, ran, threw, output>>

\* no detect_qr_code call and no batch run: an empty database and directory
QrIdle == [pos |-> "idle", frames |-> <<"", "", "">>, tried |-> <<>>, ret |-> NoneStr]

EmptyDb == [plants |-> <<>>, images |-> <<>>, measurements |-> <<>>]

SgpIdle ==
    [pc |-> "idle", w |-> 0, min_area |-> 0, hsv |-> {}, otsu |-> {},
     exclusion_zones |-> <<>>,
     roi_mask |-> [some |-> FALSE, v |-> {}], primary |-> {}, mask |-> {},
     area_px |-> 0, fallback_ran |-> FALSE,
     ret |-> [some |-> FALSE, mask |-> {}, area_px |-> 0, contour |-> FALSE,
              success |-> FALSE]]

QrBatchIdle ==
    /\ sgp = SgpIdle
    /\ qr = QrIdle
    /\ db = EmptyDb
    /\ files = <<>>
    /\ clock = 0
    /\ runs = <<>>

QrBatchUnchanged == UNCHANGED <<qr, db, files, clock, runs, sgp>>

-----------------------------------------------------------------------------
(* SpecHealth: calls of compute_health_score                                *)

GreenVals == {Rat(k, 2) : k \in (-MaxGreen)..MaxGreen}
SatVals == {Rat(k, 4) : k \in (-1)..MaxSat}
GrowthVals == {None} \cup {Some(RInt(k)) : k \in {-100, -5, -1, 0, 1, 5, 100}}
                     \cup {Some(<<1, 2>>)}
PrevHealthVals == {None} \cup {Some(RInt(50 * k)) : k \in (-1)..MaxPrevHealth}
                         \cup {Some(RInt(10)), Some(RInt(90))}

HealthCall ==
    /\ hs.phase = "idle"
    /\ \E g \in GreenVals, st \in SatVals, gr \in GrowthVals, ph \in PrevHealthVals :
          hs' = [phase |-> "done", greenness_index |-> g, mean_saturation |-> st,
                 growth_rate |-> gr, previous_health |-> ph,
                 score |-> compute_health_score(g, st, gr, ph)]
    /\ UNCHANGED <<cm, cal, settings>>
    /\ PipelineUnchanged
    /\ QrBatchUnchanged

InitHealth ==
    /\ hs = HsIdle
    /\ cm = CmIdle
    /\ cal = CalIdle
    /\ settings = DefaultSettings
    /\ PipelineIdle
    /\ QrBatchIdle

NextHealth == HealthCall

SpecHealth == InitHealth /\ [][NextHealth]_vars

-----------------------------------------------------------------------------
(* SpecColor: calls of extract_color_metrics                                *)

ChannelLevels == {0, 100, 255}
Pixels == ChannelLevels \X ChannelLevels \X ChannelLevels
Images(n) == [1..n -> Pixels]
Masks(n) == [1..n -> {0, 255}]

ColorCall ==
    /\ cm.phase = "idle"
    /\ \E n \in 1..MaxPix :
          \E image \in Images(n), mask \in Masks(n) :
             cm' = [phase |-> "done", image |-> image, mask |-> mask,
                    result |-> extract_color_metrics(image, mask)]
    /\ UNCHANGED <<hs, cal, settings>>
    /\ PipelineUnchanged
    /\ QrBatchUnchanged

InitColor == InitHealth

NextColor == ColorCall

SpecColor == InitColor /\ [][NextColor]_vars

-----------------------------------------------------------------------------
(* SpecCalib: calls of calibrate_from_ruler                                 *)

TickPositions(len) == {p \in 0..(len - 1) : p % TickStep = 1}

\* one more tick column, closer to its neighbours than the minimum peak distance
CloseTick == {4}

RulerImages ==
    {EmptyImage} \cup
    {[h |-> ImgH, w |-> ImgW, cols |-> cs, rows |-> rs] :
        cs \in SUBSET (TickPositions(ImgW) \cup CloseTick),
        rs \in SUBSET TickPositions(ImgH)}

\* roi arguments: the default (None), disabled (roi=[]), the whole frame, a window
\* inside the frame, a window of no width, a window outside the frame
Rois ==
    {NoRoi, Some(<<>>), Some(<<0, 0, ImgW, ImgH>>), Some(<<6, 0, 21, ImgH>>),
     Some(<<2, 2, 0, 4>>), Some(<<ImgW, 0, 10, 10>>)}

TickDistances == {None, Some(RInt(0)), Some(RInt(10))}

SettingsValues == {[ruler_tick_distance_mm |-> RInt(k)] : k \in {-1, 0, 1}}

CalibrateCall ==
    /\ cal.phase = "idle"
    /\ \E image \in RulerImages, td \in TickDistances, roi \in Rois :
          cal' = [phase |-> "done", image |-> image, tick_distance_mm |-> td,
                  roi |-> roi,
                  res |-> calibrate_from_ruler(image, td, roi, settings)]
    /\ UNCHANGED <<hs, cm, settings>>
    /\ PipelineUnchanged
    /\ QrBatchUnchanged

InitCalib ==
    /\ hs = HsIdle
    /\ cm = CmIdle
    /\ cal = CalIdle
    /\ settings \in SettingsValues
    /\ PipelineIdle
    /\ QrBatchIdle

NextCalib == CalibrateCall

SpecCalib == InitCalib /\ [][NextCalib]_vars

-----------------------------------------------------------------------------
(* app/analysis/qr_detection.py                                             *)

\* detect_qr_code: `attempts` holds what detector.detectAndDecode returns ("" when
\* nothing is decoded) on the raw, the contrast-enhanced and the binarized frame
detect_qr_code(attempts) ==
    IF attempts[1] # "" THEN SomeStr(attempts[1])
    ELSE IF attempts[2] # "" THEN SomeStr(attempts[2])
    ELSE IF attempts[3] # "" THEN SomeStr(attempts[3])
    ELSE NoneStr

-----------------------------------------------------------------------------
(* app/analysis/segmentation.py, on a frame of one row of pixels 1..n: a    *)
(* mask is the set of its set pixels, a connected component a maximal run   *)
(* of adjacent set pixels.                                                  *)

\* settings.min_plant_area_px of the checked configuration (default 500)
min_plant_area_px == 2

\* the connected component of pixel i in mask
Component(mask, i) ==
    {j \in mask : \A k \in (Min2(i, j))..(Max2(i, j)) : k \in mask}

\* a filter that drops nothing
keep_all_components(mask, min_area) == mask

_remove_small_components(mask, min_area) ==
    {i \in mask : Cardinality(Component(mask, i)) >= min_area}

\* a segment_plant that takes whatever the fallback returns as a success
segment_plant_unchecked_fallback(hsv_clean, lab_clean) ==
    LET mask1 == _remove_small_components(hsv_clean, min_plant_area_px)
        fallback == Cardinality(mask1) < min_plant_area_px
        mask == IF fallback
                THEN _remove_small_components(lab_clean, min_plant_area_px)
                ELSE mask1
    IN  [some |-> TRUE, mask |-> mask, area_px |-> Cardinality(mask),
         contour |-> (mask # {}), success |-> TRUE]

\* hsv_clean: the hue-band mask after the ROI mask and the closing / opening of
\* lines 60-69; lab_clean: the a-channel Otsu mask after lines 175-182
segment_plant(hsv_clean, lab_clean) ==
    LET mask1 == _remove_small_components(hsv_clean, min_plant_area_px)
        area1 == Cardinality(mask1)
        fallback == area1 < min_plant_area_px
        mask == IF fallback
                THEN _remove_small_components(lab_clean, min_plant_area_px)
                ELSE mask1
        area_px == Cardinality(mask)
    IN  IF area_px < min_plant_area_px
        THEN [some |-> TRUE, mask |-> mask, area_px |-> area_px, contour |-> FALSE,
              success |-> FALSE]
        ELSE [some |-> TRUE, mask |-> mask, area_px |-> area_px,
              contour |-> (mask # {}), success |-> TRUE]

-----------------------------------------------------------------------------
(* app/analysis/segmentation.py: segment_plant statement by statement, on a *)
(* frame of one row of pixels 1..w.  sgp.hsv is the mask cv2.inRange gives  *)
(* (line 60), sgp.otsu the mask the Otsu threshold of the a-channel gives   *)
(* (line 175).                                                              *)

SegW == 8         \* pixels of the frame segment_plant is called on

\* cv2.getStructuringElement(cv2.MORPH_ELLIPSE, (5, 5)) has the rows 00100, 11111,
\* 11111, 11111, 00100; on a frame of one row only the middle row meets the frame:
\* the pixels the kernel reaches on each side of its anchor
KernelReach == 2

\* cv2.dilate, one iteration: what lies beyond the border sets no pixel
dilate(mask, w) ==
    {i \in 1..w : \E j \in mask : Abs(i - j) <= KernelReach}

\* cv2.erode, one iteration: what lies beyond the border clears no pixel
erode(mask, w) ==
    {i \in mask : \A j \in 1..w : Abs(i - j) <= KernelReach => j \in mask}

RECURSIVE dilate_n(_, _, _)
dilate_n(mask, w, iterations) ==
    IF iterations = 0 THEN mask ELSE dilate_n(dilate(mask, w), w, iterations - 1)

RECURSIVE erode_n(_, _, _)
erode_n(mask, w, iterations) ==
    IF iterations = 0 THEN mask ELSE erode_n(erode(mask, w), w, iterations - 1)

\* cv2.morphologyEx(mask, cv2.MORPH_CLOSE, kernel, iterations): dilate `iterations`
\* times, then erode `iterations` times
morph_close(mask, w, iterations) ==
    erode_n(dilate_n(mask, w, iterations), w, iterations)

\* cv2.morphologyEx(mask, cv2.MORPH_OPEN, kernel, iterations)
morph_open(mask, w, iterations) ==
    dilate_n(erode_n(mask, w, iterations), w, iterations)

\* roi_mask[y : y + zh, x : x + zw] = 0 for a zone (x, y, zw, zh) that covers the row
ZonePixels(zone, w) == {i \in 1..w : zone.x < i /\ i <= zone.x + zone.zw}

ExcludedPixels(exclusion_zones, w) ==
    UNION {ZonePixels(exclusion_zones[k], w) : k \in DOMAIN exclusion_zones}

\* lines 98-120: no zones configured, no mask
_build_roi_mask(w, exclusion_zones) ==
    IF exclusion_zones = <<>>
    THEN [some |-> FALSE, v |-> {}]
    ELSE [some |-> TRUE, v |-> (1..w) \ ExcludedPixels(exclusion_zones, w)]

\* lines 63-64 and 177-178
apply_roi(mask, roi_mask) == IF roi_mask.some THEN mask \cap roi_mask.v ELSE mask

\* lines 67-71: close twice, open once, drop the small components
primary_cleanup(mask, w, min_area) ==
    _remove_small_components(morph_open(morph_close(mask, w, 2), w, 1), min_area)

\* lines 180-183: close twice, open twice, drop the small components
fallback_cleanup(mask, w, min_area) ==
    _remove_small_components(morph_open(morph_close(mask, w, 2), w, 2), min_area)

\* lines 168-186
_plantcv_fallback(otsu, roi_mask, w, min_area) ==
    LET mask == fallback_cleanup(apply_roi(otsu, roi_mask), w, min_area)
    IN  [mask |-> mask, area_px |-> Cardinality(mask)]

\* the comparison of line 74 the wrong way round
FallbackNeededAbove(area_px, min_area) == area_px > min_area

\* line 74
FallbackNeeded(area_px, min_area) == area_px < min_area

\* settings.min_plant_area_px of the deployments checked
MinAreas == {min_plant_area_px, 2 * min_plant_area_px}

\* a run of set pixels, or no pixel
Runs(w) == {a..b : a \in 1..w, b \in 0..w}

\* the exclusion zones of the deployments checked: none, a one-pixel strip inside the
\* frame, a strip at the left border, two zones of which one runs over the border
ZoneLists ==
    { <<>>,
      <<[x |-> 2, zw |-> 1]>>,
      <<[x |-> 0, zw |-> 2]>>,
      <<[x |-> 0, zw |-> 1], [x |-> SegW - 2, zw |-> 3]>> }

SegUnchanged ==
    /\ UNCHANGED <<hs, cm, cal, settings, qr, db, files, clock, runs>>
    /\ PipelineUnchanged

\* lines 53-72
SegPrimary ==
    /\ sgp.pc = "start"
    /\ \E roi_mask \in {_build_roi_mask(sgp.w, sgp.exclusion_zones)} :
          \E mask \in {primary_cleanup(apply_roi(sgp.hsv, roi_mask), sgp.w,
                                           sgp.min_area)} :
             sgp' = [sgp EXCEPT !.roi_mask = roi_mask, !.primary = mask,
                                !.mask = mask, !.area_px = Cardinality(mask),
                                !.pc = "primary"]
    /\ SegUnchanged

\* lines 74-76
SegFallback ==
    /\ sgp.pc = "primary"
    /\ IF FallbackNeeded(sgp.area_px, sgp.min_area)
       THEN \E fb \in {_plantcv_fallback(sgp.otsu, sgp.roi_mask, sgp.w,
                                           sgp.min_area)} :
               sgp' = [sgp EXCEPT !.mask = fb.mask, !.area_px = fb.area_px,
                                  !.fallback_ran = TRUE, !.pc = "checked"]
       ELSE sgp' = [sgp EXCEPT !.pc = "checked"]
    /\ SegUnchanged

\* lines 78-92
SegReturn ==
    /\ sgp.pc = "checked"
    /\ sgp' = [sgp EXCEPT
          !.ret = IF sgp.area_px < sgp.min_area
                  THEN [some |-> TRUE, mask |-> sgp.mask, area_px |-> sgp.area_px,
                        contour |-> FALSE, success |-> FALSE]
                  ELSE [some |-> TRUE, mask |-> sgp.mask, area_px |-> sgp.area_px,
                        contour |-> (sgp.mask # {}), success |-> TRUE],
          !.pc = "returned"]
    /\ SegUnchanged

InitSeg ==
    /\ hs = HsIdle
    /\ cm = CmIdle
    /\ cal = CalIdle
    /\ settings = DefaultSettings
    /\ PipelineIdle
    /\ qr = QrIdle
    /\ db = EmptyDb
    /\ files = <<>>
    /\ clock = 0
    /\ runs = <<>>
    /\ sgp \in {[SgpIdle EXCEPT !.pc = "start", !.w = SegW, !.hsv = hsv,
                                !.otsu = otsu, !.exclusion_zones = zones,
                                !.min_area = min_area] :
                  hsv \in SUBSET (1..SegW), otsu \in Runs(SegW),
                  zones \in ZoneLists, min_area \in MinAreas}

NextSeg ==
    \/ SegPrimary
    \/ SegFallback
    \/ SegReturn

SpecSeg == InitSeg /\ [][NextSeg]_vars

-----------------------------------------------------------------------------
(* app/analysis/pipeline.py: analyze_image, one action per statement group  *)

Stages == {"qr", "ruler", "seg", "color", "health"}

\* the message each except-clause appends
ErrorOf(stage) ==
    CASE stage = "load" -> "Failed to read image"
      [] stage = "qr" -> "QR detection error"
      [] stage = "ruler" -> "Ruler calibration error"
      [] stage = "seg" -> "Segmentation error"
      [] stage = "color" -> "Color metrics error"
      [] stage = "health" -> "Health score error"

\* output.area_px / output.px_per_mm (the square left out)
area_over_scale(area_px, px_per_mm) == RDiv(RInt(area_px), px_per_mm)

\* pipeline.py line 110: output.area_px / (output.px_per_mm ** 2)
physical_area(area_px, px_per_mm) == RDiv(RInt(area_px), RMul(px_per_mm, px_per_mm))

\* an overgrowth test that also fires at the threshold itself
is_overgrown_at_threshold(area_mm2) ==
    IF ~area_mm2.some THEN FALSE ELSE RLe(overgrowth_threshold_mm2, area_mm2.v)

\* health_score.py lines 81-88
is_overgrown(area_mm2) ==
    IF ~area_mm2.some THEN FALSE ELSE RLt(overgrowth_threshold_mm2, area_mm2.v)

\* frames handed to calibrate_from_ruler by analyze_image
PipelineRulers ==
    {[h |-> ImgH, w |-> ImgW, cols |-> cs, rows |-> {}] :
        cs \in {{}, {1, 1 + TickStep, 1 + 2 * TickStep},
                {1, 2 + TickStep, 3 + 2 * TickStep}}}

QrAttempts == {<<"", "", "">>, <<"plant-001", "", "">>, <<"", "", "plant-002">>}

Palette == {<<30, 140, 40>>, <<0, 255, 0>>}

\* settings.ruler_tick_distance_mm of the analysed configurations: the values of
\* SettingsValues and a coarse ruler, under which a frame covers a large area
PipelineSettings == SettingsValues \cup {[ruler_tick_distance_mm |-> RInt(1000)]}

PrevContexts ==
    {[previous_area_mm2 |-> a, previous_measured_hours_ago |-> t, previous_health |-> ph] :
        a \in {None, Some(RInt(1))},
        t \in {None, Some(RInt(-2)), Some(RInt(0)), Some(RInt(2))},
        ph \in {None, Some(RInt(90))}}

\* the load step of a call that went on to the stages with no image
LoadImageNoReturn ==
    /\ pc = "load"
    /\ \/ /\ output' = [output EXCEPT !.errors = Append(@, ErrorOf("load"))]
          /\ pc' = "qr"
          /\ ran' = ran
       \/ /\ output' = output
          /\ pc' = "qr"
          /\ ran' = ran \cup {"load"}
    /\ UNCHANGED <<hs, cm, cal, settings, prev, seg, threw>>
    /\ QrBatchUnchanged

\* lines 72-80: cv2.imread; an undecodable file ends the call with one error
LoadImage ==
    /\ pc = "load"
    /\ \/ /\ output' = [output EXCEPT !.errors = Append(@, ErrorOf("load"))]
          /\ pc' = "done"
          /\ ran' = ran
       \/ /\ output' = output
          /\ pc' = "qr"
          /\ ran' = ran \cup {"load"}
    /\ UNCHANGED <<hs, cm, cal, settings, prev, seg, threw>>
    /\ QrBatchUnchanged

\* a QR stage that lets the exception escape the call
QrStageUncaught ==
    /\ pc = "qr"
    /\ \/ /\ output' = output
          /\ threw' = threw \cup {"qr"}
          /\ pc' = "raised"
       \/ /\ \E attempts \in QrAttempts :
                output' = [output EXCEPT !.qr_code = detect_qr_code(attempts)]
          /\ threw' = threw
          /\ pc' = "ruler"
    /\ ran' = ran \cup {"qr"}
    /\ UNCHANGED <<hs, cm, cal, settings, prev, seg>>
    /\ QrBatchUnchanged

\* a QR stage that also reports an absent identifier in errors
QrStageRecordsAbsent ==
    /\ pc = "qr"
    /\ \/ /\ output' = [output EXCEPT !.errors = Append(@, ErrorOf("qr"))]
          /\ threw' = threw \cup {"qr"}
       \/ /\ \E attempts \in QrAttempts :
                LET code == detect_qr_code(attempts)
                IN  output' = [output EXCEPT
                       !.qr_code = code,
                       !.errors = IF code.some THEN @ ELSE Append(@, "No QR code found")]
          /\ threw' = threw
    /\ ran' = ran \cup {"qr"}
    /\ pc' = "ruler"
    /\ UNCHANGED <<hs, cm, cal, settings, prev, seg>>
    /\ QrBatchUnchanged

\* lines 84-90
QrStage ==
    /\ pc = "qr"
    /\ \/ /\ output' = [output EXCEPT !.errors = Append(@, ErrorOf("qr"))]
          /\ threw' = threw \cup {"qr"}
       \/ /\ \E attempts \in QrAttempts :
                output' = [output EXCEPT !.qr_code = detect_qr_code(attempts)]
          /\ threw' = threw
    /\ ran' = ran \cup {"qr"}
    /\ pc' = "ruler"
    /\ UNCHANGED <<hs, cm, cal, settings, prev, seg>>
    /\ QrBatchUnchanged

\* lines 92-100
RulerStage ==
    /\ pc = "ruler"
    /\ \/ /\ output' = [output EXCEPT !.errors = Append(@, ErrorOf("ruler"))]
          /\ threw' = threw \cup {"ruler"}
       \/ \E image \in PipelineRulers :
             \E res \in {calibrate_from_ruler(image, None, NoRoi, settings).ret} :
                 IF res.raised
                 THEN /\ output' = [output EXCEPT !.errors = Append(@, ErrorOf("ruler"))]
                      /\ threw' = threw \cup {"ruler"}
                 ELSE /\ output' = [output EXCEPT !.px_per_mm = res.px_per_mm,
                                                  !.ruler_detected = res.ruler_detected]
                      /\ threw' = threw
    /\ ran' = ran \cup {"ruler"}
    /\ pc' = "seg"
    /\ UNCHANGED <<hs, cm, cal, settings, prev, seg>>
    /\ QrBatchUnchanged

\* lines 102-114
SegStage ==
    /\ pc = "seg"
    /\ \/ /\ output' = [output EXCEPT !.errors = Append(@, ErrorOf("seg"))]
          /\ threw' = threw \cup {"seg"}
          /\ seg' = NoSeg
       \/ /\ \E hsv_clean \in SUBSET (1..PipePix), lab_clean \in SUBSET (1..PipePix) :
                LET sg == segment_plant(hsv_clean, lab_clean)
                    scaled == /\ sg.success
                              /\ output.px_per_mm.some
                              /\ RLt(RInt(0), output.px_per_mm.v)
                IN  /\ seg' = sg
                    /\ output' = [output EXCEPT
                          !.area_px = sg.area_px,
                          !.segmentation_success = sg.success,
                          !.area_mm2 = IF scaled
                                       THEN Some(physical_area(sg.area_px,
                                                               output.px_per_mm.v))
                                       ELSE @]
          /\ threw' = threw
    /\ ran' = ran \cup {"seg"}
    /\ pc' = "color"
    /\ UNCHANGED <<hs, cm, cal, settings, prev>>
    /\ QrBatchUnchanged

\* a colour stage that does not look at the segmentation result
ColorStageUnconditional ==
    /\ pc = "color"
    /\ IF TRUE
       THEN /\ \/ /\ output' = [output EXCEPT !.errors = Append(@, ErrorOf("color"))]
                  /\ threw' = threw \cup {"color"}
               \/ /\ \E image \in [1..PipePix -> Palette] :
                        LET colors == extract_color_metrics(
                                         image,
                                         [i \in 1..PipePix |->
                                             IF i \in seg.mask THEN 255 ELSE 0])
                        IN  output' = [output EXCEPT
                               !.mean_hue = colors.mean_hue,
                               !.mean_saturation = colors.mean_saturation,
                               !.greenness_index = colors.greenness_index]
                  /\ threw' = threw
            /\ ran' = ran \cup {"color"}
       ELSE UNCHANGED <<output, threw, ran>>
    /\ pc' = "growth"
    /\ UNCHANGED <<hs, cm, cal, settings, prev, seg>>
    /\ QrBatchUnchanged

\* lines 116-126
ColorStage ==
    /\ pc = "color"
    /\ IF output.segmentation_success /\ seg.some
       THEN /\ \/ /\ output' = [output EXCEPT !.errors = Append(@, ErrorOf("color"))]
                  /\ threw' = threw \cup {"color"}
               \/ /\ \E image \in [1..PipePix -> Palette] :
                        LET colors == extract_color_metrics(
                                         image,
                                         [i \in 1..PipePix |->
                                             IF i \in seg.mask THEN 255 ELSE 0])
                        IN  output' = [output EXCEPT
                               !.mean_hue = colors.mean_hue,
                               !.mean_saturation = colors.mean_saturation,
                               !.greenness_index = colors.greenness_index]
                  /\ threw' = threw
            /\ ran' = ran \cup {"color"}
       ELSE UNCHANGED <<output, threw, ran>>
    /\ pc' = "growth"
    /\ UNCHANGED <<hs, cm, cal, settings, prev, seg>>
    /\ QrBatchUnchanged

\* a growth stage that accepts every elapsed time but zero
GrowthStageNonzeroElapsed ==
    /\ pc = "growth"
    /\ output' =
          IF /\ prev.previous_area_mm2.some
             /\ prev.previous_measured_hours_ago.some
             /\ prev.previous_measured_hours_ago.v # RInt(0)
             /\ output.area_mm2.some
          THEN [output EXCEPT !.growth_rate =
                   Some(RDiv(RSub(output.area_mm2.v, prev.previous_area_mm2.v),
                             prev.previous_measured_hours_ago.v))]
          ELSE output
    /\ pc' = "health"
    /\ UNCHANGED <<hs, cm, cal, settings, prev, seg, ran, threw>>
    /\ QrBatchUnchanged

\* lines 128-135
GrowthStage ==
    /\ pc = "growth"
    /\ output' =
          IF /\ prev.previous_area_mm2.some
             /\ prev.previous_measured_hours_ago.some
             /\ RLt(RInt(0), prev.previous_measured_hours_ago.v)
             /\ output.area_mm2.some
          THEN [output EXCEPT !.growth_rate =
                   Some(RDiv(RSub(output.area_mm2.v, prev.previous_area_mm2.v),
                             prev.previous_measured_hours_ago.v))]
          ELSE output
    /\ pc' = "health"
    /\ UNCHANGED <<hs, cm, cal, settings, prev, seg, ran, threw>>
    /\ QrBatchUnchanged

\* lines 137-148
HealthStage ==
    /\ pc = "health"
    /\ \/ /\ output' = [output EXCEPT !.errors = Append(@, ErrorOf("health"))]
          /\ threw' = threw \cup {"health"}
       \/ /\ output' = [output EXCEPT !.health_score =
                          compute_health_score(output.greenness_index,
                                               output.mean_saturation,
                                               output.growth_rate,
                                               prev.previous_health)]
          /\ threw' = threw
    /\ ran' = ran \cup {"health"}
    /\ pc' = "overgrown"
    /\ UNCHANGED <<hs, cm, cal, settings, prev, seg>>
    /\ QrBatchUnchanged

\* lines 150-153
OvergrowthStage ==
    /\ pc = "overgrown"
    /\ output' = [output EXCEPT !.is_overgrown = is_overgrown(output.area_mm2)]
    /\ pc' = "done"
    /\ UNCHANGED <<hs, cm, cal, settings, prev, seg, ran, threw>>
    /\ QrBatchUnchanged

Init ==
    /\ hs = HsIdle
    /\ cm = CmIdle
    /\ cal = CalIdle
    /\ settings \in PipelineSettings
    /\ pc = "load"
    /\ prev \in PrevContexts
    /\ seg = NoSeg
    /\ ran = {}
    /\ threw = {}
    /\ output = AnalysisOutput
    /\ QrBatchIdle

Next ==
    \/ LoadImage
    \/ QrStage
    \/ RulerStage
    \/ SegStage
    \/ ColorStage
    \/ GrowthStage
    \/ HealthStage
    \/ OvergrowthStage

Spec == Init /\ [][Next]_vars

-----------------------------------------------------------------------------
(* SpecQr: one call of detect_qr_code, attempt by attempt.  qr.frames[i] is  *)
(* what detector.detectAndDecode gives on the i-th frame the call would     *)
(* build: the decoded text, "" when nothing is decoded, or a raised         *)
(* cv2.error.                                                               *)

DecodeFault == "cv2.error"

FrameOrder == <<"raw", "enhanced", "binarized">>

Decodes == {"", "plant-001", "plant-002", DecodeFault}

\* a test that takes every decode, the empty one included, as a success
QrDecodedAlways(decoded) == TRUE

\* `if decoded:` (lines 32, 44, 53)
QrDecoded(decoded) == decoded # ""

\* one detector.detectAndDecode call and the `if decoded: return decoded` after it;
\* after the last frame, `return None` (lines 57-58)
QrAttempt(i) ==
    /\ qr.pos = FrameOrder[i]
    /\ LET decoded == qr.frames[i]
           tried == Append(qr.tried, FrameOrder[i])
       IN  qr' = IF decoded = DecodeFault
                 THEN [qr EXCEPT !.pos = "raised", !.tried = tried]
                 ELSE IF QrDecoded(decoded)
                 THEN [qr EXCEPT !.pos = "returned", !.tried = tried,
                                 !.ret = SomeStr(decoded)]
                 ELSE IF i < Len(FrameOrder)
                 THEN [qr EXCEPT !.pos = FrameOrder[i + 1], !.tried = tried]
                 ELSE [qr EXCEPT !.pos = "returned", !.tried = tried,
                                 !.ret = NoneStr]
    /\ UNCHANGED <<hs, cm, cal, settings, db, files, clock, runs, sgp>>
    /\ PipelineUnchanged

\* lines 30-34
QrFirstAttempt == QrAttempt(1)

\* lines 36-46
QrSecondAttempt == QrAttempt(2)

\* lines 48-58
QrThirdAttempt == QrAttempt(3)

InitQr ==
    /\ hs = HsIdle
    /\ cm = CmIdle
    /\ cal = CalIdle
    /\ settings = DefaultSettings
    /\ PipelineIdle
    /\ qr \in {[pos |-> "raw", frames |-> f, tried |-> <<>>, ret |-> NoneStr] :
                 f \in [1..3 -> Decodes]}
    /\ db = EmptyDb
    /\ files = <<>>
    /\ clock = 0
    /\ runs = <<>>
    /\ sgp = SgpIdle

NextQr ==
    \/ QrFirstAttempt
    \/ QrSecondAttempt
    \/ QrThirdAttempt

SpecQr == InitQr /\ [][NextQr]_vars

-----------------------------------------------------------------------------
(* SpecBatch: batch runs of routers/analysis.py run_analysis (the API       *)
(* endpoint) and scripts/run_phase1.py main (the CLI script) over one image *)
(* directory and one database.  Each program has its own session; every     *)
(* query and every commit of crud.py is one step, and the steps of the two  *)
(* programs interleave.  Times are whole hours.                             *)

MaxFiles == 2     \* files in the image directory
MaxRows == 4      \* image rows the batch runs store in all
MaxClock == 2     \* hours the clock advances

Programs == {"run_analysis", "main"}

\* `result.qr_code or ""`: no key for the files without an identifier
NoPlantKey == ""

\* `result.qr_code or "unknown-plant"`
UnknownPlant == "unknown-plant"

\* the image files a directory may hold, by name: what analyze_image reads off each
Catalogue ==
    << [filename |-> "Plant_1.jpg", readable |-> TRUE,
        qr_code |-> SomeStr("plant-001"), area_mm2 |-> Some(RInt(10))],
       [filename |-> "Plant_2.jpg", readable |-> TRUE,
        qr_code |-> SomeStr("plant-001"), area_mm2 |-> None],
       [filename |-> "Plant_3.jpg", readable |-> TRUE,
        qr_code |-> NoneStr, area_mm2 |-> Some(RInt(12))] >>

\* the files of the directories run_analysis is checked on alone: one more image of
\* plant-001 with a physical area, and a file cv2.imread cannot read
WiderCatalogue ==
    Catalogue \o
    << [filename |-> "Plant_4.jpg", readable |-> TRUE,
        qr_code |-> SomeStr("plant-001"), area_mm2 |-> Some(RInt(13))],
       [filename |-> "Plant_5.jpg", readable |-> FALSE,
        qr_code |-> NoneStr, area_mm2 |-> None] >>

\* sorted(set(files), key=lambda p: p.name) of a directory of 1..MaxFiles files
Directories ==
    {[i \in 1..Cardinality(picked) |-> Catalogue[SetToSortedSeq(picked)[i]]] :
        picked \in {c \in SUBSET (1..Len(Catalogue)) :
                       c # {} /\ Cardinality(c) <= MaxFiles}}

\* the directories of 1..MaxFiles + 1 files of the wider catalogue
ApiDirectories ==
    {[i \in 1..Cardinality(picked) |-> WiderCatalogue[SetToSortedSeq(picked)[i]]] :
        picked \in {c \in SUBSET (1..Len(WiderCatalogue)) :
                       c # {} /\ Cardinality(c) <= MaxFiles + 1}}

\* colour metrics of the segmented plant in every file
BatchGreenness == <<45, 100>>
BatchSaturation == <<11, 40>>

\* the AnalysisOutput defaults (pipeline.py lines 24-50): what analyze_image returns
\* at lines 77-80 for a file cv2.imread cannot read
NoResult ==
    [qr_code |-> NoneStr, area_mm2 |-> None, greenness_index |-> RInt(0),
     mean_saturation |-> RInt(0), growth_rate |-> None, health_score |-> RInt(0)]

\* analyze_image(img_path): no previous context is passed, so growth_rate is None and
\* the health score is computed with neither a growth rate nor a previous score
analyze_image(file) ==
    IF ~file.readable
    THEN NoResult
    ELSE [qr_code |-> file.qr_code, area_mm2 |-> file.area_mm2,
          greenness_index |-> BatchGreenness, mean_saturation |-> BatchSaturation,
          growth_rate |-> None,
          health_score |-> compute_health_score(BatchGreenness, BatchSaturation,
                                                None, None)]

\* a row of measurements (the columns the batch runs read back)
Measurement(id, image_id, plant_id, result, measured_at) ==
    [id |-> id, image_id |-> image_id, plant_id |-> plant_id,
     area_mm2 |-> result.area_mm2, health_score |-> result.health_score,
     growth_rate |-> result.growth_rate, measured_at |-> measured_at]

NoMeasurement == [some |-> FALSE, v |-> Measurement(0, 0, 0, NoResult, 0)]

\* no AnalysisResult returned (yet)
NoReport == [some |-> FALSE, images_processed |-> 0, plants_found |-> 0]

\* run_analysis lines 116-120 (main lines 164-165 print the same two numbers)
AnalysisResult(images, plants_seen) ==
    [some |-> TRUE, images_processed |-> Len(images),
     plants_found |-> Cardinality(plants_seen)]

RunIdle ==
    [pc |-> "idle", idx |-> 0, base_time |-> 0, qr_code |-> "",
     plant_id |-> 0, prev |-> NoMeasurement, result |-> NoResult, image_id |-> 0,
     plants_seen |-> {}, report |-> NoReport]

\* a capture time that does not advance with the file
captured_at_base(run) == run.base_time

\* captured_at = base_time + timedelta(hours=idx), idx counted from 0
captured_at(run) == run.base_time + (run.idx - 1)

\* db.query(Plant).filter(Plant.qr_code == qr_code): the ids of the matching rows
FindPlant(plants, qr_code) ==
    {plants[i].id : i \in {j \in DOMAIN plants : plants[j].qr_code = qr_code}}

SetMin(S) == CHOOSE x \in S : \A y \in S : x <= y

\* an insert into plants that no constraint guards
PlantInsertUnchecked(plants, qr_code) == TRUE

\* Plant.qr_code is unique=True: the commit of a second row with the qr_code fails
PlantInsertAllowed(plants, qr_code) == FindPlant(plants, qr_code) = {}

\* a lookup that also takes the measurements made at `before`
get_previous_measurement_until(measurements, plant_id, before) ==
    LET matching == {measurements[i] : i \in
                        {j \in DOMAIN measurements :
                            /\ measurements[j].plant_id = plant_id
                            /\ measurements[j].measured_at <= before}}
    IN  {m \in matching : \A o \in matching : o.measured_at <= m.measured_at}

\* crud.py lines 145-152: the rows .first() may return (the rows of the plant measured
\* before `before` that no other such row is later than); none: the result is None
get_previous_measurement(measurements, plant_id, before) ==
    LET matching == {measurements[i] : i \in
                        {j \in DOMAIN measurements :
                            /\ measurements[j].plant_id = plant_id
                            /\ measurements[j].measured_at < before}}
    IN  {m \in matching : \A o \in matching : o.measured_at <= m.measured_at}

\* the image rows a run has still to store
RowsToCome(run) ==
    IF run.pc \in {"plant", "insert_plant", "prev", "image"}
    THEN Len(files) - run.idx + 1
    ELSE IF run.pc = "measure" THEN Len(files) - run.idx
    ELSE 0

BatchUnchanged ==
    /\ UNCHANGED <<hs, cm, cal, settings, qr, files, sgp>>
    /\ PipelineUnchanged

\* run_analysis lines 39-65, main lines 58-78: collect the files, take base_time
RunStart(p) ==
    /\ runs[p].pc \in {"idle", "done", "raised"}
    /\ Len(db.images) + RowsToCome(runs["run_analysis"]) + RowsToCome(runs["main"])
          + Len(files) <= MaxRows
    /\ runs' = [runs EXCEPT ![p] =
                  [RunIdle EXCEPT !.pc = "plant", !.idx = 1,
                                  !.base_time = clock - Len(files)]]
    /\ UNCHANGED <<db, clock>>
    /\ BatchUnchanged

\* run_analysis lines 70-77, main lines 91-104, crud.py lines 17-18: analyze the
\* file and query the plant of its QR code
GetPlant(p) ==
    /\ runs[p].pc = "plant"
    /\ \E result \in {analyze_image(files[runs[p].idx])} :
          \E qr_code \in {IF result.qr_code.some THEN result.qr_code.v
                          ELSE UnknownPlant} :
             \E found \in {FindPlant(db.plants, qr_code)} :
                runs' = [runs EXCEPT ![p].result = result,
                                     ![p].qr_code = qr_code,
                                     ![p].plants_seen = @ \cup {qr_code},
                                     ![p].prev = NoMeasurement,
                                     ![p].plant_id =
                                        IF found = {} THEN 0 ELSE SetMin(found),
                                     ![p].pc =
                                        IF found = {} THEN "insert_plant" ELSE "prev"]
    /\ UNCHANGED <<db, clock>>
    /\ BatchUnchanged

\* crud.py lines 19-23: add the plant and commit; a commit the unique constraint
\* rejects raises IntegrityError, which neither program catches
InsertPlant(p) ==
    /\ runs[p].pc = "insert_plant"
    /\ IF PlantInsertAllowed(db.plants, runs[p].qr_code)
       THEN /\ db' = [db EXCEPT !.plants =
                        Append(@, [id |-> Len(db.plants) + 1,
                                   qr_code |-> runs[p].qr_code])]
            /\ runs' = [runs EXCEPT ![p].plant_id = Len(db.plants) + 1,
                                    ![p].pc = "prev"]
       ELSE /\ db' = db
            /\ runs' = [runs EXCEPT ![p].pc = "raised"]
    /\ UNCHANGED clock
    /\ BatchUnchanged

\* run_analysis lines 80-90, main lines 107-121: look the previous measurement up;
\* with one, and both areas present, set the growth rate and recompute the score
PreviousLookup(p) ==
    /\ runs[p].pc = "prev"
    /\ \E rows \in {get_previous_measurement(db.measurements, runs[p].plant_id,
                                             captured_at(runs[p]))} :
          \E found \in (IF rows = {} THEN {NoMeasurement} ELSE {Some(m) : m \in rows}) :
             \E delta_hours \in {captured_at(runs[p]) - found.v.measured_at} :
                runs' = [runs EXCEPT
                   ![p].prev = found,
                   ![p].result =
                      IF /\ found.some
                         /\ delta_hours > 0
                         /\ runs[p].result.area_mm2.some
                         /\ found.v.area_mm2.some
                      THEN LET rate == RDiv(RSub(runs[p].result.area_mm2.v,
                                                 found.v.area_mm2.v),
                                            RInt(delta_hours))
                           IN  [@ EXCEPT
                                  !.growth_rate = Some(rate),
                                  !.health_score =
                                     compute_health_score(
                                        runs[p].result.greenness_index,
                                        runs[p].result.mean_saturation,
                                        Some(rate), Some(found.v.health_score))]
                      ELSE @,
                   ![p].pc = "image"]
    /\ UNCHANGED <<db, clock>>
    /\ BatchUnchanged

\* run_analysis lines 92-98, main lines 124-130, crud.py lines 69-86
CreateImage(p) ==
    /\ runs[p].pc = "image"
    /\ db' = [db EXCEPT !.images =
                 Append(@, [id |-> Len(db.images) + 1,
                            plant_id |-> runs[p].plant_id,
                            filename |-> files[runs[p].idx].filename,
                            captured_at |-> captured_at(runs[p])])]
    /\ runs' = [runs EXCEPT ![p].image_id = Len(db.images) + 1,
                            ![p].pc = "measure"]
    /\ UNCHANGED clock
    /\ BatchUnchanged

\* the row create_measurement inserts for program p: run_analysis line 113 passes
\* measured_at=captured_at, main lines 133-146 pass no measured_at, so crud.py lines
\* 126-127 leave the column to its default, the time of the insert
StoredRow(p, run) ==
    Measurement(Len(db.measurements) + 1, run.image_id, run.plant_id, run.result,
                IF p = "run_analysis" THEN captured_at(run) ELSE clock)

\* run_analysis lines 100-114, main lines 133-146, crud.py lines 97-132;
\* uq_measurement_image rejects a second row of the image
CreateMeasurement(p) ==
    /\ runs[p].pc = "measure"
    /\ IF \E i \in DOMAIN db.measurements :
             db.measurements[i].image_id = runs[p].image_id
       THEN /\ db' = db
            /\ runs' = [runs EXCEPT ![p].pc = "raised"]
       ELSE /\ db' = [db EXCEPT !.measurements = Append(@, StoredRow(p, runs[p]))]
            /\ runs' = [runs EXCEPT
                          ![p].idx = @ + 1,
                          ![p].pc = IF runs[p].idx = Len(files)
                                    THEN "done" ELSE "plant",
                          ![p].report =
                             IF runs[p].idx = Len(files)
                             THEN AnalysisResult(files, runs[p].plants_seen)
                             ELSE @]
    /\ UNCHANGED clock
    /\ BatchUnchanged

\* time passes
Tick ==
    /\ clock < MaxClock
    /\ clock' = clock + 1
    /\ UNCHANGED <<db, runs>>
    /\ BatchUnchanged

InitBatch ==
    /\ hs = HsIdle
    /\ cm = CmIdle
    /\ cal = CalIdle
    /\ settings = DefaultSettings
    /\ PipelineIdle
    /\ qr = QrIdle
    /\ sgp = SgpIdle
    /\ db = EmptyDb
    /\ files \in Directories
    /\ clock = 0
    /\ runs = [p \in Programs |-> RunIdle]

NextBatch ==
    \/ \E p \in Programs :
          \/ RunStart(p)
          \/ GetPlant(p)
          \/ InsertPlant(p)
          \/ PreviousLookup(p)
          \/ CreateImage(p)
          \/ CreateMeasurement(p)
    \/ Tick

SpecBatch == InitBatch /\ [][NextBatch]_vars

-----------------------------------------------------------------------------
(* SpecApi: run_analysis alone on the store, batch after batch              *)

InitApi ==
    /\ hs = HsIdle
    /\ cm = CmIdle
    /\ cal = CalIdle
    /\ settings = DefaultSettings
    /\ PipelineIdle
    /\ qr = QrIdle
    /\ sgp = SgpIdle
    /\ db = EmptyDb
    /\ files \in ApiDirectories
    /\ clock = 0
    /\ runs = [p \in Programs |-> RunIdle]

NextApi ==
    \/ RunStart("run_analysis")
    \/ GetPlant("run_analysis")
    \/ InsertPlant("run_analysis")
    \/ PreviousLookup("run_analysis")
    \/ CreateImage("run_analysis")
    \/ CreateMeasurement("run_analysis")
    \/ Tick

SpecApi == InitApi /\ [][NextApi]_vars

-----------------------------------------------------------------------------
(* Properties of analyze_image (Spec)                                       *)

Decoded == "load" \in ran
AfterSeg == pc \in {"color", "growth", "health", "overgrown", "done"}

\* C1: the physical area is present exactly when the segmentation stage returned
\* success and the scale is present and positive; it then equals area_px / scale^2
\* and is not negative.  It is absent when the scale is absent or <= 0, and when
\* segmentation failed or raised.
C1_PhysicalArea ==
    LET s == output.px_per_mm
        a == output.area_mm2
    IN  /\ a.some <=> /\ AfterSeg
                      /\ "seg" \notin threw
                      /\ output.segmentation_success
                      /\ s.some
                      /\ RLt(RInt(0), s.v)
        /\ a.some => /\ RMul(a.v, RMul(s.v, s.v)) = RInt(output.area_px)
                     /\ RLe(RInt(0), a.v)

C1_Witness ==
    /\ pc = "done"
    /\ output.area_mm2.some
    /\ output.area_px >= min_plant_area_px
    /\ output.px_per_mm.v = RInt(TickStep)

\* an image that segmented with a scale present but not positive: no physical area
C1_NegativeScaleSeen ==
    /\ pc = "done"
    /\ output.segmentation_success
    /\ output.px_per_mm.some
    /\ RLt(output.px_per_mm.v, RInt(0))
    /\ ~output.area_mm2.some

\* C4: a file that cannot be decoded ends the call with exactly one error, every
\* other field at its default, and no stage attempted.
C4_UndecodableImage ==
    (pc # "load" /\ ~Decoded) =>
        /\ pc = "done"
        /\ Len(output.errors) = 1
        /\ [output EXCEPT !.errors = <<>>] = AnalysisOutput
        /\ ran = {}
        /\ threw = {}
        /\ seg = NoSeg

C4_Witness ==
    /\ pc = "done"
    /\ ~Decoded
    /\ output.errors = <<ErrorOf("load")>>

StageOrder == <<"qr", "ruler", "seg", "color", "health">>
StageIndex(st) == CHOOSE i \in 1..Len(StageOrder) : StageOrder[i] = st
Later(x, y) == StageIndex(x) < StageIndex(y)

\* the messages of the stages that raised, in stage order
MessagesOf(T) ==
    LET F[i \in 0..Len(StageOrder)] ==
            IF i = 0 THEN <<>>
            ELSE IF StageOrder[i] \in T THEN Append(F[i - 1], ErrorOf(StageOrder[i]))
            ELSE F[i - 1]
    IN  F[Len(StageOrder)]

CountOf(msg, errs) == Cardinality({i \in 1..Len(errs) : errs[i] = msg})

\* C5 as claimed: at the end of a call on a decodable image every stage that raised
\* left exactly one message, the messages are in stage order, and no later stage was
\* kept from running by a fault (a stage not run is the color stage after a
\* segmentation that returned without success).
C5_FaultNeverSkipsLaterStage ==
    (pc = "done" /\ Decoded) =>
        /\ output.errors = MessagesOf(threw)
        /\ \A x \in threw :
              /\ CountOf(ErrorOf(x), output.errors) = 1
              /\ \A y \in Stages :
                    (Later(x, y) /\ y \notin ran) => (y = "color" /\ "seg" \notin threw)

C5_State ==
    /\ pc # "raised"
    /\ Decoded => output.errors = MessagesOf(threw)
    /\ (pc = "done" /\ Decoded) =>
          /\ \A x \in threw : CountOf(ErrorOf(x), output.errors) = 1
          /\ {"qr", "ruler", "seg", "health"} \subseteq ran
          /\ "color" \in ran <=> output.segmentation_success
          /\ "seg" \in threw => "color" \notin ran

\* a step in which a stage raises changes nothing of the output but errors, and the
\* fields a stage has filled in are changed by no other stage
C5_Step ==
    /\ threw' # threw => [output' EXCEPT !.errors = output.errors] = output
    /\ pc # "qr" => output'.qr_code = output.qr_code
    /\ pc # "ruler" => /\ output'.px_per_mm = output.px_per_mm
                       /\ output'.ruler_detected = output.ruler_detected
    /\ pc # "seg" => /\ output'.area_px = output.area_px
                     /\ output'.area_mm2 = output.area_mm2
                     /\ output'.segmentation_success = output.segmentation_success
    /\ pc # "color" => /\ output'.mean_hue = output.mean_hue
                       /\ output'.mean_saturation = output.mean_saturation
                       /\ output'.greenness_index = output.greenness_index
    /\ pc # "health" => output'.health_score = output.health_score

\* C5 amended: a fault of a stage is caught, leaves exactly one message (messages in
\* stage order), leaves the fields other stages filled in, never leaves the call, and
\* keeps no later stage from running except ColorAnalyzer, which runs exactly when
\* segmentation returned success and so is skipped when TissueSegmenter raises.
C5_FaultIsolation == []C5_State /\ [][C5_Step]_vars

C5_Witness ==
    /\ pc = "done"
    /\ "seg" \in threw
    /\ "color" \notin ran
    /\ "health" \in ran /\ "health" \notin threw
    /\ output.qr_code.some
    /\ output.px_per_mm.some
    /\ output.errors = <<ErrorOf("seg")>>

\* C6 as claimed: an empty errors list at the end of a call on a decodable image
\* implies that every stage produced a result.
C6_EmptyErrorsMeansAllResults ==
    (pc = "done" /\ Decoded /\ output.errors = <<>>) =>
        /\ output.qr_code.some
        /\ output.px_per_mm.some
        /\ output.ruler_detected
        /\ output.segmentation_success
        /\ "color" \in ran

\* C6 amended: errors holds one message per stage that raised (and the one message of
\* an undecodable file) and nothing else: an absent identifier, an undetected ruler
\* and a segmentation below the minimum add no message, so an empty errors list
\* implies only that the file decoded and no stage raised.
C6_ErrorsAreRaisedFaults ==
    /\ Len(output.errors) =
          Cardinality(threw) + (IF pc # "load" /\ ~Decoded THEN 1 ELSE 0)
    /\ \A i \in 1..Len(output.errors) :
          output.errors[i] \in {ErrorOf(st) : st \in Stages \cup {"load"}}

C6_Witness ==
    /\ pc = "done"
    /\ Decoded
    /\ output.errors = <<>>
    /\ ~output.qr_code.some
    /\ ~output.px_per_mm.some
    /\ ~output.segmentation_success
    /\ "color" \notin ran

-----------------------------------------------------------------------------
(* Properties of compute_health_score (SpecHealth)                          *)

\* C2: the returned score lies in [0, 100] for every input, previous_health outside
\* [0, 100] and the extreme greenness / saturation / growth values included.
C2_ScoreBounded ==
    hs.phase = "done" => /\ RLe(RInt(0), hs.score)
                         /\ RLe(hs.score, RInt(100))

C2_Witness ==
    /\ hs.phase = "done"
    /\ ~hs.growth_rate.some
    /\ hs.previous_health.some
    /\ RLt(RInt(100), hs.previous_health.v)
    /\ hs.greenness_index = RInt(1)
    /\ hs.mean_saturation = RInt(1)
    /\ hs.score = RInt(100)

-----------------------------------------------------------------------------
(* Properties of extract_color_metrics (SpecColor)                          *)

CmSelected == Selected(cm.mask)
CmChannelSum == SumOver(cm.image, CmSelected, 1) + SumOver(cm.image, CmSelected, 2)
                    + SumOver(cm.image, CmSelected, 3)

\* C3 as claimed: the greenness index lies in [-1, 1] when the channel sum is
\* positive, and is 0 when the sum is 0 or the mask selects nothing.
C3_GreennessWithinOne ==
    cm.phase = "done" =>
        IF CmSelected = {} \/ CmChannelSum = 0
        THEN cm.result.greenness_index = RInt(0)
        ELSE /\ RLe(RInt(-1), cm.result.greenness_index)
             /\ RLe(cm.result.greenness_index, RInt(1))

\* C3 amended: the greenness index lies in [-1, 2] when the channel sum is positive
\* (2 when only the green channel is non-zero), and is 0 when the sum is 0 or the
\* mask selects nothing.
C3_GreennessRange ==
    cm.phase = "done" =>
        IF CmSelected = {} \/ CmChannelSum = 0
        THEN cm.result.greenness_index = RInt(0)
        ELSE /\ RLe(RInt(-1), cm.result.greenness_index)
             /\ RLe(cm.result.greenness_index, RInt(2))

C3_Witness ==
    /\ cm.phase = "done"
    /\ CmSelected # {}
    /\ CmChannelSum > 0
    /\ cm.result.greenness_index = RInt(2)

-----------------------------------------------------------------------------
(* Properties of calibrate_from_ruler (SpecCalib)                           *)

CalDone == cal.phase = "done"
CalRet == cal.res.ret

\* the roi and the tick distance the call works with
EffRoi == IF cal.roi.some THEN cal.roi.v ELSE ruler_roi
EffTick == IF cal.tick_distance_mm.some /\ cal.tick_distance_mm.v # RInt(0)
           THEN cal.tick_distance_mm.v ELSE settings.ruler_tick_distance_mm
RoiConfigured == Len(EffRoi) = 4
CropEmpty == RoiConfigured /\ Size(Crop(cal.image, EffRoi)) = 0

\* the frame whose profiles were analysed
Frame == IF cal.res.used = "crop" THEN Crop(cal.image, EffRoi) ELSE cal.image
PeaksH == FindPeaks(ColumnProfile(Frame))
PeaksV == FindPeaks(RowProfile(Frame))

\* |sp - med| < 0.4 med for an integer spacing sp and a rational median med
Within40(sp, med) == 10 * Abs(sp * med[2] - med[1]) < 4 * med[1]
Surviving(peaks) ==
    LET sps == Diff(peaks)
        med == Median(sps)
    IN  Cardinality({i \in 1..Len(sps) : Within40(sps[i], med)})
Usable(peaks) == Len(peaks) >= 3 /\ Surviving(peaks) >= 2
Unusable(peaks) == Len(peaks) >= 3 /\ Surviving(peaks) < 2
EvenlySpaced(peaks, d) ==
    /\ Len(peaks) >= 3
    /\ \A i \in 1..(Len(peaks) - 1) : peaks[i + 1] - peaks[i] = d

\* C7: in every CalibrationResult calibrate_from_ruler returns, px_per_mm is present
\* iff ruler_detected is true, iff the orientation the result comes from had at least
\* 3 ticks and at least 2 spacings within the outlier band.
C7_ScaleIffDetected ==
    (CalDone /\ ~CalRet.raised) =>
        /\ CalRet.px_per_mm.some <=> CalRet.ruler_detected
        /\ CalRet.ruler_detected <=>
              /\ cal.res.used # "none"
              /\ \/ CalRet = cal.res.result_h /\ Usable(PeaksH)
                 \/ CalRet = cal.res.result_v /\ Usable(PeaksV)
        /\ CalRet.ruler_detected => CalRet.tick_count >= 3

\* a call in which one orientation saw ticks it could not use and none gave a scale
C7_Witness ==
    /\ CalDone
    /\ ~CalRet.raised
    /\ cal.res.used = "full"
    /\ Unusable(PeaksH)
    /\ cal.res.result_h.ruler_detected
    /\ ~CalRet.ruler_detected
    /\ ~CalRet.px_per_mm.some

C9_CallerSeesTicksUnusable ==
    (/\ CalDone
     /\ ~CalRet.raised
     /\ cal.res.used # "none"
     /\ Unusable(PeaksH) \/ Unusable(PeaksV)
     /\ ~cal.res.result_h.px_per_mm.some
     /\ ~cal.res.result_v.px_per_mm.some) =>
        /\ CalRet.ruler_detected
        /\ ~CalRet.px_per_mm.some

\* C9 amended: with at least 3 peaks but fewer than 2 spacings within 40% of the
\* median, _find_tick_spacing returns detected = true with the scale absent for that
\* orientation (tick_count the peaks, the median that of all spacings);
\* calibrate_from_ruler does not hand that result on: when no orientation yields a
\* scale the caller receives detected = false, scale absent, tick_count 0.
C9_TicksUnusable ==
    (CalDone /\ cal.res.used # "none") =>
        /\ Unusable(PeaksH) =>
              /\ cal.res.result_h.ruler_detected
              /\ ~cal.res.result_h.px_per_mm.some
              /\ ~cal.res.result_h.raised
              /\ cal.res.result_h.tick_count = Len(PeaksH)
              /\ cal.res.result_h.median_tick_spacing_px = Median(Diff(PeaksH))
        /\ (~cal.res.result_h.raised /\ Unusable(PeaksV)) =>
              /\ cal.res.result_v.ruler_detected
              /\ ~cal.res.result_v.px_per_mm.some
              /\ cal.res.result_v.tick_count = Len(PeaksV)
        /\ (/\ ~CalRet.raised
            /\ ~cal.res.result_h.px_per_mm.some
            /\ ~cal.res.result_v.px_per_mm.some) =>
              /\ ~CalRet.ruler_detected
              /\ ~CalRet.px_per_mm.some
              /\ CalRet.tick_count = 0

C9_Witness ==
    /\ CalDone
    /\ cal.res.used = "full"
    /\ Unusable(PeaksH)
    /\ Len(PeaksH) = 3
    /\ cal.res.result_h.ruler_detected
    /\ ~cal.res.result_h.px_per_mm.some
    /\ ~cal.res.result_v.px_per_mm.some
    /\ ~CalRet.ruler_detected

\* C10: N >= 3 peaks evenly spaced d pixels apart and a physical spacing p > 0 give
\* detected = true, tick_count = N >= 3, median spacing d and px_per_mm = d / p, which
\* is within 20% of d / p.
C10_RoundTrip ==
    (CalDone /\ cal.res.used # "none" /\ RLt(RInt(0), EffTick)) =>
        LET peaks == PeaksH
            d == IF Len(peaks) >= 2 THEN peaks[2] - peaks[1] ELSE 0
        IN  EvenlySpaced(peaks, d) =>
                LET r == cal.res.result_h
                    expected == Rat(d * EffTick[2], EffTick[1])
                    dev == RSub(r.px_per_mm.v, expected)
                IN  /\ ~r.raised
                    /\ r.ruler_detected
                    /\ r.tick_count = Len(peaks)
                    /\ r.tick_count >= 3
                    /\ r.median_tick_spacing_px = RInt(d)
                    /\ r.px_per_mm.some
                    /\ RMul(r.px_per_mm.v, EffTick) = RInt(d)
                    /\ RLt(RMul(RInt(5), dev), expected)
                    /\ RLt(RMul(RInt(-5), dev), expected)

C10_Witness ==
    /\ CalDone
    /\ cal.res.used = "full"
    /\ EffTick = RInt(10)
    /\ LET peaks == PeaksH
       IN  Len(peaks) = 4 /\ EvenlySpaced(peaks, TickStep)
    /\ cal.res.result_h.px_per_mm = Some(Rat(TickStep, 10))
    /\ CalRet = cal.res.result_h

-----------------------------------------------------------------------------
(* Properties of segment_plant as analyze_image calls it (Spec)             *)

\* C11: every SegmentationResult has area_px equal to the number of set pixels of
\* its mask, success false exactly when area_px is below min_plant_area_px, and a
\* contour only when success is true.
C11_SegmentationResult ==
    seg.some => /\ seg.area_px = Cardinality(seg.mask)
                /\ seg.success <=> seg.area_px >= min_plant_area_px
                /\ seg.contour => seg.success

C11_Witness ==
    /\ seg.some
    /\ seg.success
    /\ seg.contour
    /\ seg.area_px >= min_plant_area_px
    /\ seg.area_px < PipePix

-----------------------------------------------------------------------------
(* Properties of compute_health_score, continued (SpecHealth)               *)

\* the score compute_health_score returns when its growth component is `component`
ScoreWithGrowth(green, sat, component) ==
    LET greenness_norm ==
            _clamp(RDiv(RAdd(green, RInt(1)),
                        RAdd(healthy_greenness_ref, RInt(1))), RInt(0), RInt(1))
        sat_norm == _clamp(RDiv(sat, healthy_saturation_ref),
                           RInt(0), RInt(1))
        weighted == RAdd(RAdd(RMul(<<4, 10>>, greenness_norm),
                              RMul(<<3, 10>>, sat_norm)),
                         RMul(<<3, 10>>, component))
    IN  Round2(_clamp(RMul(weighted, RInt(100)), RInt(0), RInt(100)))

\* the growth component the claim describes
ClaimedGrowthComponent(growth_rate, previous_health) ==
    LET shifted == RAdd(<<1, 2>>, RDiv(growth_rate.v, RInt(10)))
    IN  IF growth_rate.some
        THEN IF RLe(RInt(0), growth_rate.v)
             THEN (IF RLt(RInt(1), shifted) THEN RInt(1) ELSE shifted)
             ELSE (IF RLt(shifted, RInt(0)) THEN RInt(0) ELSE shifted)
        ELSE IF previous_health.some
             THEN RDiv(previous_health.v, RInt(100))
             ELSE <<1, 2>>

\* C12: the growth component is 0.5 + 0.1 * growth_rate (capped at 1 for a rate >= 0,
\* floored at 0 for a rate < 0) when growth_rate is present, else previous_health / 100
\* when previous_health is present, else 0.5; previous_health has no effect on the
\* score when growth_rate is present.
C12_GrowthComponent ==
    hs.phase = "done" =>
        /\ hs.score = ScoreWithGrowth(hs.greenness_index, hs.mean_saturation,
                         ClaimedGrowthComponent(hs.growth_rate, hs.previous_health))
        /\ hs.growth_rate.some =>
              \A ph \in PrevHealthVals :
                 compute_health_score(hs.greenness_index, hs.mean_saturation,
                                      hs.growth_rate, ph) = hs.score

C12_Witness ==
    /\ hs.phase = "done"
    /\ hs.growth_rate.some
    /\ hs.previous_health.some
    /\ hs.score # ScoreWithGrowth(hs.greenness_index, hs.mean_saturation,
                                  RDiv(hs.previous_health.v, RInt(100)))

\* C13: with growth_rate absent and the colour inputs fixed, a higher previous_health
\* never gives a lower score.
C13_MonotoneInPreviousHealth ==
    (hs.phase = "done" /\ ~hs.growth_rate.some /\ hs.previous_health.some) =>
        \A h2 \in PrevHealthVals :
            (h2.some /\ RLe(hs.previous_health.v, h2.v)) =>
                RLe(hs.score,
                    compute_health_score(hs.greenness_index, hs.mean_saturation,
                                         None, h2))

C13_Witness ==
    /\ hs.phase = "done"
    /\ ~hs.growth_rate.some
    /\ hs.previous_health.some
    /\ \E h2 \in PrevHealthVals :
          /\ h2.some
          /\ RLt(hs.previous_health.v, h2.v)
          /\ RLt(hs.score,
                 compute_health_score(hs.greenness_index, hs.mean_saturation,
                                      None, h2))

-----------------------------------------------------------------------------
(* Properties of analyze_image, continued (Spec)                            *)

\* areas just below, at and just above the overgrowth threshold, and no area
OvergrowthProbe ==
    {None} \cup {Some(RAdd(overgrowth_threshold_mm2, RInt(k))) : k \in {-1, 0, 1}}

AfterGrowth == pc \in {"health", "overgrown", "done"}

\* C19: growth_rate is present exactly when the caller gave a previous area and an
\* elapsed time > 0 and the physical area is present; it is then
\* (area_mm2 - previous_area_mm2) / elapsed hours.
C19_GrowthRate ==
    LET a == prev.previous_area_mm2
        t == prev.previous_measured_hours_ago
        given == a.some /\ t.some /\ RLt(RInt(0), t.v) /\ output.area_mm2.some
    IN  /\ output.growth_rate.some <=> (AfterGrowth /\ given)
        /\ output.growth_rate.some =>
              RMul(output.growth_rate.v, t.v) = RSub(output.area_mm2.v, a.v)

C19_Witness ==
    /\ pc = "done"
    /\ output.growth_rate.some
    /\ RLt(output.growth_rate.v, RInt(0))
    /\ "health" \notin threw

-----------------------------------------------------------------------------
(* Properties of detect_qr_code (SpecQr)                                    *)

\* the frames before the i-th all decoded nothing
NothingBefore(i) == \A j \in 1..(i - 1) : qr.frames[j] = ""

\* C18: the attempts are made in the order raw, enhanced, binarized; the call
\* returns the first decode that is not empty and attempts nothing after it; when
\* all three decode nothing it returns None and does not raise; a returned
\* identifier is never the empty string.
C18_FirstSuccessfulDecode ==
    LET n == Len(qr.tried)
    IN  /\ n <= Len(FrameOrder)
        /\ qr.tried = SubSeq(FrameOrder, 1, n)
        /\ qr.ret.some => /\ qr.pos = "returned"
                          /\ qr.ret.v # ""
                          /\ qr.ret.v = qr.frames[n]
                          /\ NothingBefore(n)
        /\ (qr.pos = "returned" /\ ~qr.ret.some) => /\ n = Len(FrameOrder)
                                                    /\ NothingBefore(n + 1)
        /\ NothingBefore(Len(FrameOrder) + 1) => qr.pos # "raised"
        /\ (qr.pos = "returned" /\ \A j \in 1..n : qr.frames[j] # DecodeFault)
              => qr.ret = detect_qr_code(qr.frames)

C18_Witness ==
    /\ qr.pos = "returned"
    /\ qr.frames[1] = ""
    /\ qr.frames[2] = "plant-001"
    /\ qr.frames[3] = "plant-002"
    /\ qr.tried = <<"raw", "enhanced">>
    /\ qr.ret = SomeStr("plant-001")

-----------------------------------------------------------------------------
(* Properties of the batch runs and of crud.py (SpecBatch)                  *)

\* the file a measurement row was made from
SourceFile(m) == db.images[m.image_id].filename

Rows(table) == {table[i] : i \in DOMAIN table}

\* C15 as claimed: the database never holds two image rows, nor two measurement
\* rows, of the same source image file and plant.
C15_OneRecordPerSourceImage ==
    /\ \A a, b \in Rows(db.images) :
          (a.filename = b.filename /\ a.plant_id = b.plant_id) => a = b
    /\ \A m, n \in Rows(db.measurements) :
          (SourceFile(m) = SourceFile(n) /\ m.plant_id = n.plant_id) => m = n

\* a get_or_create_plant call of program p returns in this step
PlantReturned(p) ==
    /\ runs[p].pc \in {"plant", "insert_plant"}
    /\ runs'[p].pc = "prev"

C16_State ==
    /\ \A i \in DOMAIN db.plants : db.plants[i].id = i
    /\ \A i, j \in DOMAIN db.plants :
          db.plants[i].qr_code = db.plants[j].qr_code => i = j

C16_Step ==
    /\ \A i \in DOMAIN db.plants : db'.plants[i] = db.plants[i]
    /\ Len(db'.plants) <= Len(db.plants) + 1
    /\ \A p \in Programs :
          PlantReturned(p) =>
             /\ runs'[p].plant_id \in DOMAIN db'.plants
             /\ db'.plants[runs'[p].plant_id].qr_code = runs'[p].qr_code
             /\ FindPlant(db.plants, runs'[p].qr_code) # {}
                   => /\ db'.plants = db.plants
                      /\ FindPlant(db.plants, runs'[p].qr_code) = {runs'[p].plant_id}
             /\ FindPlant(db.plants, runs'[p].qr_code) = {}
                   => Len(db'.plants) = Len(db.plants) + 1

\* C16: at most one Plant row per qr_code ever exists and rows never change; the call
\* that finds no row of its qr_code adds exactly one, and every call that returns
\* while a row of its qr_code exists returns that row and adds none.
C16_GetOrCreatePlantIdempotent == []C16_State /\ [][C16_Step]_vars

C16_Witness ==
    /\ Len(db.plants) = 1
    /\ Len(db.measurements) >= 2
    /\ \E p \in Programs : runs[p].pc = "prev" /\ runs[p].plant_id = 1
                           /\ runs[p].idx = 1

\* the rows of plant plant_id measured strictly before `before`
EarlierRows(plant_id, before) ==
    {m \in Rows(db.measurements) : m.plant_id = plant_id /\ m.measured_at < before}

C17_Step ==
    \A p \in Programs :
       (runs[p].pc = "prev" /\ runs'[p].pc = "image") =>
          LET earlier == EarlierRows(runs[p].plant_id, captured_at(runs[p]))
              got == runs'[p].prev
          IN  /\ got.some <=> earlier # {}
              /\ got.some => /\ got.v \in earlier
                             /\ \A o \in earlier : o.measured_at <= got.v.measured_at

\* C17: get_previous_measurement(plant, before) returns a measurement of that plant
\* measured strictly before `before` that no other such measurement is later than,
\* and None when the plant has none.
C17_PreviousMeasurement == [][C17_Step]_vars

C17_Witness ==
    \E p \in Programs :
       /\ runs[p].pc = "image"
       /\ runs[p].prev.some
       /\ runs[p].prev.v \in Rows(db.measurements)
       /\ \E o \in Rows(db.measurements) :
             /\ o.plant_id = runs[p].plant_id
             /\ o.measured_at < runs[p].prev.v.measured_at
       /\ \E o \in Rows(db.measurements) :
             /\ o.plant_id = runs[p].plant_id
             /\ o.measured_at >= captured_at(runs[p])

\* the row program p stored last, once its loop body has ended
StoredLast(p) ==
    IF runs[p].pc \in {"plant", "done"} /\ runs[p].image_id # 0
    THEN {m \in Rows(db.measurements) : m.image_id = runs[p].image_id}
    ELSE {}

\* C20 as claimed: a row stored for an image whose plant had a previous measurement
\* and for which no growth rate was computed carries the health score computed with
\* previous_health / 100 of that previous measurement as the growth component.
C20_StoredHealthUsesPreviousHealth ==
    \A p \in Programs :
       \A m \in StoredLast(p) :
          (runs[p].prev.some /\ ~m.growth_rate.some) =>
             m.health_score =
                compute_health_score(runs[p].result.greenness_index,
                                     runs[p].result.mean_saturation, None,
                                     Some(runs[p].prev.v.health_score))

-----------------------------------------------------------------------------
(* run_analysis against scripts/run_phase1.py main (SpecBatch)              *)

\* C21 as claimed: from the same store, clock, directory and position in the loop,
\* run_analysis and main store the same measurement row (the same measured_at,
\* growth_rate and health_score).
C21_SameRowsStored ==
    \A p \in Programs :
       runs[p].pc = "measure" =>
          StoredRow("run_analysis", runs[p]) = StoredRow("main", runs[p])

-----------------------------------------------------------------------------
(* Properties of segment_plant, statement by statement (SpecSeg)            *)

SegChecked == sgp.pc \in {"checked", "returned"}

\* C22: the fallback has run exactly when the area of the primary mask (after cleanup
\* and size filter) is below the minimum, and never before that test; a primary mask
\* of at least the minimum is the mask returned; when the fallback ran, the mask and
\* area returned are the fallback's and success is true exactly when the fallback's
\* area is at least the minimum.
C22_FallbackIffPrimaryBelowMinimum ==
    /\ ~SegChecked => ~sgp.fallback_ran
    /\ SegChecked => (sgp.fallback_ran <=> Cardinality(sgp.primary) < sgp.min_area)
    /\ sgp.pc = "returned" =>
          LET fb == _plantcv_fallback(sgp.otsu, sgp.roi_mask, sgp.w, sgp.min_area)
          IN  /\ Cardinality(sgp.primary) >= sgp.min_area
                    => /\ sgp.ret.mask = sgp.primary
                       /\ sgp.ret.success
              /\ sgp.fallback_ran
                    => /\ sgp.ret.mask = fb.mask
                       /\ sgp.ret.area_px = fb.area_px
                       /\ sgp.ret.success <=> fb.area_px >= sgp.min_area

C22_Witness ==
    /\ sgp.pc = "returned"
    /\ sgp.fallback_ran
    /\ sgp.ret.success
    /\ sgp.hsv # {}
    /\ sgp.ret.mask # sgp.primary

\* C23 as claimed: the mask the fallback returns is the Otsu mask, restricted to the
\* inclusion mask, after the cleanup and size filter of the primary path.
C23_FallbackCleanupIsPrimaryCleanup ==
    (SegChecked /\ sgp.fallback_ran) =>
       sgp.mask = primary_cleanup(apply_roi(sgp.otsu, sgp.roi_mask), sgp.w,
                                  sgp.min_area)

\* C24 as claimed: no set pixel of the mask returned lies in an exclusion zone.
C24_MaskOutsideExclusionZones ==
    sgp.pc = "returned" =>
       sgp.ret.mask \cap ExcludedPixels(sgp.exclusion_zones, sgp.w) = {}

ZeroOrAtLeast(area, min_area) == area = 0 \/ area >= min_area

\* C27: the area of a mask that _remove_small_components returns is 0 or at least
\* min_plant_area_px, on the primary path and on the fallback path, so a result with
\* success false has area_px 0 and an empty mask.
C27_FailedSegmentationIsEmpty ==
    /\ sgp.min_area >= 1 =>
          /\ ZeroOrAtLeast(Cardinality(sgp.primary), sgp.min_area)
          /\ ZeroOrAtLeast(Cardinality(sgp.mask), sgp.min_area)
    /\ (sgp.ret.some /\ ~sgp.ret.success) =>
          /\ sgp.ret.area_px = 0
          /\ sgp.ret.mask = {}

\* a failed call in which the size filter dropped what the cleanup had left
C27_Witness ==
    /\ sgp.pc = "returned"
    /\ ~sgp.ret.success
    /\ sgp.ret.area_px = 0
    /\ morph_open(morph_close(apply_roi(sgp.hsv, sgp.roi_mask), sgp.w, 2),
                  sgp.w, 1) # {}

-----------------------------------------------------------------------------
(* Properties of calibrate_from_ruler, continued (SpecCalib)                *)

\* C25: of two orientations that both yield a scale the one with more detected
\* peaks is returned (either on a tie); when one alone yields a scale it is returned;
\* when neither does, the result has ruler_detected false and no scale.
C25_OrientationChoice ==
    (CalDone /\ cal.res.used # "none" /\ ~CalRet.raised) =>
       LET h == cal.res.result_h
           v == cal.res.result_v
       IN  /\ (h.px_per_mm.some /\ v.px_per_mm.some) =>
                 /\ CalRet \in {h, v}
                 /\ h.tick_count > v.tick_count => CalRet = h
                 /\ v.tick_count > h.tick_count => CalRet = v
           /\ (h.px_per_mm.some /\ ~v.px_per_mm.some) => CalRet = h
           /\ (~h.px_per_mm.some /\ v.px_per_mm.some) => CalRet = v
           /\ (~h.px_per_mm.some /\ ~v.px_per_mm.some) =>
                 /\ ~CalRet.ruler_detected
                 /\ ~CalRet.px_per_mm.some

\* both orientations yield a scale and the vertical one has more peaks
C25_Witness ==
    /\ CalDone
    /\ cal.res.result_h.px_per_mm.some
    /\ cal.res.result_v.px_per_mm.some
    /\ cal.res.result_v.tick_count > cal.res.result_h.tick_count
    /\ CalRet = cal.res.result_v
    /\ CalRet # cal.res.result_h

-----------------------------------------------------------------------------
(* Order of the stages of analyze_image (Spec)                              *)

AfterColor == pc \in {"growth", "health", "overgrown", "done"}
AfterHealth == pc \in {"overgrown", "done"}
ColorsUnset ==
    /\ output.mean_hue = RInt(0)
    /\ output.mean_saturation = RInt(0)
    /\ output.greenness_index = RInt(0)

\* C26: once the segmentation stage has been passed, extract_color_metrics has been
\* called exactly when segment_plant returned success; when it failed or raised, the
\* three colour fields stay 0 and compute_health_score is still called, after the
\* colour and growth stages, on those values.
C26_ColorOnlyAfterSuccessfulSegmentation ==
    /\ ("color" \in ran \/ "health" \in ran) => "seg" \in ran
    /\ "health" \in ran => AfterHealth
    /\ "color" \in ran => AfterColor
    /\ ("seg" \in ran /\ AfterColor) =>
          /\ "color" \in ran <=> (seg.some /\ seg.success)
          /\ "color" \notin ran => ColorsUnset
    /\ ("seg" \in ran /\ AfterHealth) =>
          /\ "health" \in ran
          /\ ("color" \notin ran /\ "health" \notin threw) =>
                output.health_score =
                   compute_health_score(RInt(0), RInt(0), output.growth_rate,
                                        prev.previous_health)

\* the segmentation raised, the colour stage was skipped and the score was computed
C26_Witness ==
    /\ pc = "done"
    /\ "seg" \in threw
    /\ "color" \notin ran
    /\ "health" \in ran
    /\ "health" \notin threw
    /\ ColorsUnset
    /\ prev.previous_health.some

-----------------------------------------------------------------------------
(* Properties of one run_analysis batch after another (SpecApi)             *)

Api == runs["run_analysis"]

\* the plant key of a file: its QR code, "unknown-plant" without one
KeyOf(file) ==
    IF file.readable /\ file.qr_code.some THEN file.qr_code.v ELSE "unknown-plant"

C28_State ==
    /\ Api.pc # "raised"
    /\ Api.pc \in {"plant", "insert_plant", "prev", "image", "measure"}
          => Api.idx \in 1..Len(files)
    /\ Api.pc = "done" =>
          /\ Api.idx = Len(files) + 1
          /\ Api.report.some
          /\ Api.report.images_processed = Len(files)
          /\ Api.report.plants_found =
                Cardinality({KeyOf(files[i]) : i \in DOMAIN files})
          /\ Len(db.measurements) = Len(db.images)
          /\ Len(db.images) >= Len(files)
          /\ Len(db.images) % Len(files) = 0

C28_Step ==
    LET run == runs["run_analysis"]
        next == runs'["run_analysis"]
        file == files[run.idx]
        n == Len(db.images)
        k == Len(db.measurements)
    IN  IF run.pc = "image" /\ next.pc = "measure"
        THEN /\ Len(db'.images) = n + 1
             /\ \A i \in 1..n : db'.images[i] = db.images[i]
             /\ db'.images[n + 1].filename = file.filename
             /\ db'.plants[db'.images[n + 1].plant_id].qr_code = KeyOf(file)
             /\ db'.measurements = db.measurements
             /\ next.idx = run.idx
        ELSE IF run.pc = "measure" /\ next.pc \in {"plant", "done"}
        THEN /\ db'.images = db.images
             /\ Len(db'.measurements) = k + 1
             /\ \A i \in 1..k : db'.measurements[i] = db.measurements[i]
             /\ db'.measurements[k + 1].image_id = n
             /\ db'.measurements[k + 1].plant_id = db.images[n].plant_id
             /\ ~file.readable =>
                   /\ ~db'.measurements[k + 1].area_mm2.some
                   /\ ~db'.measurements[k + 1].growth_rate.some
                   /\ db'.measurements[k + 1].health_score = RInt(0)
             /\ next.idx = run.idx + 1
             /\ next.pc = "done" <=> run.idx = Len(files)
        ELSE /\ db'.images = db.images
             /\ db'.measurements = db.measurements
             /\ \/ next.idx = run.idx
                \/ run.pc \in {"idle", "done"} /\ next.pc = "plant" /\ next.idx = 1

RowsBefore(i, plant_id) ==
    {db.measurements[j] : j \in {k \in 1..(i - 1) :
                                    db.measurements[k].plant_id = plant_id}}

-----------------------------------------------------------------------------
(* The plants table under concurrent sessions (SpecBatch)                   *)

\* C30: the plants table never holds two rows of one qr_code, whatever the
\* interleaving of the sessions.
C30_OnePlantPerQrCode ==
    \A a, b \in Rows(db.plants) : a.qr_code = b.qr_code => a = b

\* both sessions found no plant of the qr_code; one inserted it, the commit of the
\* other was rejected
C30_Witness ==
    /\ Len(db.plants) = 1
    /\ \E p, q \in Programs :
          /\ p # q
          /\ runs[p].pc = "raised"
          /\ runs[p].plant_id = 0
          /\ runs[p].qr_code = db.plants[1].qr_code
          /\ runs[q].plant_id = 1
          /\ runs[q].qr_code = runs[p].qr_code

=============================================================================
